---- MODULE Spec2Model ----
(***************************************************************************)
(* CortexSOC detection engine (src/src/cortexsoc/detect.py): the module    *)
(* state _seen_origins and _failed_logins, the four rules and detect_all.  *)
(*                                                                         *)
(* Spec       sequential detect_all calls from the fresh module state.     *)
(* SpecBatch  one detect_all call on a batch drawn from a richer record    *)
(*            set, from a detection state earlier calls can have left.     *)
(* SpecConc   two request threads inside detect_all at the same time,      *)
(*            interleaved between their accesses to the module state.      *)
(* SpecSplit  sequential detect_all calls on login records close in time.  *)
(* SpecHttp   sequential requests to /ingest, /detect, /detect-and-respond *)
(*            (app.py, ingest.py, storage.py, respond.py).                 *)
(* SpecRespond two request threads inside auto_respond_to_alert.           *)
(***************************************************************************)
EXTENDS Integers, Sequences, FiniteSets, TLC

VARIABLES
    seen_origins,   \* detect.py:10  _seen_origins : user -> set of origins
    failed_logins,  \* detect.py:11  _failed_logins : user -> int
    logs,           \* argument of the detect_all call in progress / last made
    results,        \* detect_all's local list `results`, before the sort
    alerts,         \* the list detect_all returned
    outcome,        \* "idle" | "pending" | "returned" | "raised"
    tally,          \* observer: what callers handed in and got back so far
    thread,         \* the frame of each request thread (SpecConc, SpecRespond)
    store,          \* ingest.py:7 _logs / storage.py:23 the logs table, and which is active
    incidents,      \* respond.py:18  _incidents
    incident_counter, \* respond.py:19  _incident_counter
    response        \* the body of the last HTTP response of /detect-and-respond

vars == <<seen_origins, failed_logins, logs, results, alerts, outcome, tally, thread,
          store, incidents, incident_counter, response>>

\* The variables of the store and of the response layer.
layer_vars == <<store, incidents, incident_counter, response>>

----------------------------------------------------------------------------
(* Bounds of the model                                                     *)

MaxBatch == 3       \* longest batch handed to detect_all
MaxCalls == 3       \* sequential calls explored by Spec
MaxConcBatch == 2   \* longest batch of a concurrent call in SpecConc
MaxSplitBatch == 2  \* longest batch of a call in SpecSplit
\* SpecHttp: stored records, and detection requests
MaxStore == 4
MaxRequests == 2

----------------------------------------------------------------------------
(* Log records                                                             *)

\* A missing key, None and "" are all falsy for `not user` / `not origin` /
\* `not timestamp_str`; NoValue stands for any of them.
NoValue == "<none>"

Truthy(v) == v # NoValue

Users == {"alice", "bob"}
Origins == {"US", "UK"}

\* A timestamp string.  kind "naive": ISO text without a zone; "zulu": ISO
\* text ending in Z; "offset": ISO text ending in +hh:00 / -hh:00 (off hours);
\* "garbage": text datetime.fromisoformat rejects; "absent": no timestamp.
\* local is the wall-clock time written in the string, in seconds since
\* midnight of the first day of the model.
Stamp(kind, local, off) == [kind |-> kind, local |-> local, off |-> off]

NoStamp == Stamp("absent", 0, 0)
BadStamp == Stamp("garbage", 0, 0)

HMS(h, m, s) == h * 3600 + m * 60 + s

T0 == HMS(23, 0, 0)

NaiveNoon == Stamp("naive", HMS(12, 0, 0), 0)
ZuluT == Stamp("zulu", T0, 0)
ZuluT10 == Stamp("zulu", T0 + 10, 0)
ZuluT60 == Stamp("zulu", T0 + 60, 0)
ZuluT200 == Stamp("zulu", T0 + 200, 0)
Zulu3am == Stamp("zulu", HMS(3, 0, 0), 0)
\* 12:00:10-11:00 is 23:00:10 UTC
WestNoon == Stamp("offset", HMS(12, 0, 10), -11)

Stamps == {NoStamp, BadStamp, NaiveNoon, ZuluT, ZuluT10, ZuluT60, ZuluT200,
           Zulu3am, WestNoon}

Rec(type, user, origin, ts) ==
    [type |-> type, user |-> user, origin |-> origin, timestamp |-> ts]

\* datetime.fromisoformat(timestamp_str.replace("Z", "+00:00")): raises on
\* garbage, otherwise a datetime that is aware exactly when a zone is written.
Parsable(ts) == ts.kind \in {"naive", "zulu", "offset"}

fromisoformat(ts) ==
    [local |-> ts.local,
     aware |-> ts.kind # "naive",
     off   |-> IF ts.kind = "offset" THEN ts.off ELSE 0]

\* datetime.hour: the hour field of the wall-clock time as written.
HourOf(dt) == (dt.local \div 3600) % 24

\* The instant two datetimes of the same awareness are compared/subtracted by.
Instant(dt) == IF dt.aware THEN dt.local - dt.off * 3600 ELSE dt.local

----------------------------------------------------------------------------
(* Defaults of the rules                                                   *)

DefaultThreshold == 5       \* rule_failed_login_threshold(threshold=5)
OutsideHoursStart == 22     \* rule_login_unusual_time(outside_hours=(22, 6))
OutsideHoursEnd == 6
DefaultWindowSeconds == 60  \* rule_rapid_multiple_logins(window_seconds=60)

----------------------------------------------------------------------------
(* Alerts.  "record" is the triggering log record; the rapid-logins alert   *)
(* carries None there (a datetime has no __dict__).                         *)

NewOriginAlert(r) ==
    [user |-> r.user, origin |-> r.origin, reason |-> "new_origin",
     severity |-> "medium", record |-> r]

FailedLoginAlert(r, count) ==
    [user |-> r.user, reason |-> "failed_login_threshold",
     severity |-> "high", failed_count |-> count, record |-> r]

UnusualTimeAlert(r, hour) ==
    [user |-> r.user, reason |-> "unusual_login_time",
     severity |-> "low", hour |-> hour, record |-> r]

RapidLoginsAlert(user, n, window_seconds) ==
    [user |-> user, reason |-> "rapid_logins", severity |-> "medium",
     logins_in_window |-> n, window_seconds |-> window_seconds,
     record |-> NoValue]

----------------------------------------------------------------------------
(* 4.1  rule_login_from_new_origin                                          *)

\* `if origin not in _seen_origins[user]`
OriginIsNew(seen, user, origin) == origin \notin seen[user]

\* `_seen_origins[user].add(origin)`
AddOrigin(seen, user, origin) == [seen EXCEPT ![user] = @ \cup {origin}]

\* Mutant: the new-origin rule without its test of the record type.
NewOriginAnyType(r) ==
    /\ Truthy(r.user)
    /\ Truthy(r.origin)

\* The records the loop does not `continue` past.
NewOriginApplies(r) ==
    /\ r.type = "login"
    /\ Truthy(r.user)
    /\ Truthy(r.origin)

RECURSIVE NewOriginLoop(_, _, _, _)
NewOriginLoop(batch, i, seen, out) ==
    IF i > Len(batch) THEN [alerts |-> out, seen |-> seen]
    ELSE LET r == batch[i] IN
         IF NewOriginApplies(r) /\ OriginIsNew(seen, r.user, r.origin)
         THEN NewOriginLoop(batch, i + 1, AddOrigin(seen, r.user, r.origin),
                            Append(out, NewOriginAlert(r)))
         ELSE NewOriginLoop(batch, i + 1, seen, out)

rule_login_from_new_origin(batch, seen) == NewOriginLoop(batch, 1, seen, <<>>)

----------------------------------------------------------------------------
(* 4.2  rule_failed_login_threshold                                         *)

FailedLoginApplies(r) ==
    /\ r.type = "failed_login"
    /\ Truthy(r.user)

\* `_failed_logins[user] += 1`
Increment(failed, user) == [failed EXCEPT ![user] = @ + 1]

\* `if _failed_logins[user] >= threshold`
ThresholdReached(count, threshold) == count >= threshold

RECURSIVE FailedLoginLoop(_, _, _, _, _)
FailedLoginLoop(batch, i, failed, out, threshold) ==
    IF i > Len(batch) THEN [alerts |-> out, failed |-> failed]
    ELSE LET r == batch[i] IN
         IF FailedLoginApplies(r)
         THEN LET f2 == Increment(failed, r.user) IN
              FailedLoginLoop(batch, i + 1, f2,
                  IF ThresholdReached(f2[r.user], threshold)
                  THEN Append(out, FailedLoginAlert(r, f2[r.user]))
                  ELSE out,
                  threshold)
         ELSE FailedLoginLoop(batch, i + 1, failed, out, threshold)

rule_failed_login_threshold(batch, failed, threshold) ==
    FailedLoginLoop(batch, 1, failed, <<>>, threshold)

----------------------------------------------------------------------------
(* 4.3  rule_login_unusual_time                                             *)

\* Mutant: the time-based rules without their test of the user.
TimedLoginAnyUser(r) ==
    /\ r.type = "login"
    /\ r.timestamp.kind # "absent"

\* The records that reach the try block of a time-based rule.
TimedLogin(r) ==
    /\ r.type = "login"
    /\ Truthy(r.user)
    /\ r.timestamp.kind # "absent"

\* Mutant: the window test without the wraparound (and for or).
OutsideHoursNoWrap(hour, start, end) == hour >= start /\ hour < end

\* `if hour >= outside_hours[0] or hour < outside_hours[1]`
OutsideHours(hour, start, end) == hour >= start \/ hour < end

RECURSIVE UnusualTimeLoop(_, _, _, _, _)
UnusualTimeLoop(batch, i, out, start, end) ==
    IF i > Len(batch) THEN out
    ELSE LET r == batch[i] IN
         IF TimedLogin(r) /\ Parsable(r.timestamp)
                /\ OutsideHours(HourOf(fromisoformat(r.timestamp)), start, end)
         THEN UnusualTimeLoop(batch, i + 1,
                  Append(out, UnusualTimeAlert(r, HourOf(fromisoformat(r.timestamp)))),
                  start, end)
         ELSE UnusualTimeLoop(batch, i + 1, out, start, end)

rule_login_unusual_time(batch, start, end) ==
    UnusualTimeLoop(batch, 1, <<>>, start, end)

----------------------------------------------------------------------------
(* 4.4  rule_rapid_multiple_logins                                          *)

\* First loop: user_login_times[user].append(ts) for every login record with
\* a user and a timestamp that parses.  The entries, in record order.
RECURSIVE ParsedLogins(_, _)
ParsedLogins(batch, i) ==
    IF i > Len(batch) THEN <<>>
    ELSE LET r == batch[i] IN
         IF TimedLogin(r) /\ Parsable(r.timestamp)
         THEN <<[user |-> r.user, ts |-> fromisoformat(r.timestamp)]>>
                  \o ParsedLogins(batch, i + 1)
         ELSE ParsedLogins(batch, i + 1)

\* The keys of user_login_times in insertion order.
RECURSIVE LoginUsers(_, _)
LoginUsers(entries, i) ==
    IF i > Len(entries) THEN <<>>
    ELSE IF \E j \in 1..(i - 1) : entries[j].user = entries[i].user
         THEN LoginUsers(entries, i + 1)
         ELSE <<entries[i].user>> \o LoginUsers(entries, i + 1)

\* user_login_times[user]
RECURSIVE TimesOf(_, _, _)
TimesOf(entries, user, i) ==
    IF i > Len(entries) THEN <<>>
    ELSE IF entries[i].user = user
         THEN <<entries[i].ts>> \o TimesOf(entries, user, i + 1)
         ELSE TimesOf(entries, user, i + 1)

\* times.sort() compares datetimes with <, which raises TypeError between an
\* offset-naive and an offset-aware datetime; any sort of a list holding both
\* makes such a comparison.
SortRaises(times) ==
    \E i, j \in 1..Len(times) : times[i].aware # times[j].aware

\* list.sort() of datetimes of one awareness: ascending, stable.
InsertTime(sorted, t) ==
    LET p == Cardinality({k \in 1..Len(sorted) : Instant(sorted[k]) <= Instant(t)})
    IN SubSeq(sorted, 1, p) \o <<t>> \o SubSeq(sorted, p + 1, Len(sorted))

RECURSIVE SortTimes(_, _, _)
SortTimes(times, i, sorted) ==
    IF i > Len(times) THEN sorted
    ELSE SortTimes(times, i + 1, InsertTime(sorted, times[i]))

\* `delta = (times[i + 1] - times[i]).total_seconds()`
Delta(times, i) == Instant(times[i + 1]) - Instant(times[i])

\* `if 0 < delta < window_seconds`
InWindow(delta, window_seconds) == 0 < delta /\ delta < window_seconds

\* Mutant: the pair scan without its break.
RECURSIVE ScanPairsNoBreak(_, _, _, _)
ScanPairsNoBreak(user, times, i, window_seconds) ==
    IF i >= Len(times) THEN <<>>
    ELSE IF 0 < Instant(times[i + 1]) - Instant(times[i])
                /\ Instant(times[i + 1]) - Instant(times[i]) < window_seconds
         THEN <<RapidLoginsAlert(user, Len(times), window_seconds)>>
                  \o ScanPairsNoBreak(user, times, i + 1, window_seconds)
         ELSE ScanPairsNoBreak(user, times, i + 1, window_seconds)

\* `for i in range(len(times) - 1): ... append ... break`  (i is 1-based here)
RECURSIVE ScanPairs(_, _, _, _)
ScanPairs(user, times, i, window_seconds) ==
    IF i >= Len(times) THEN <<>>
    ELSE IF InWindow(Delta(times, i), window_seconds)
         THEN <<RapidLoginsAlert(user, Len(times), window_seconds)>>
         ELSE ScanPairs(user, times, i + 1, window_seconds)

\* `for user, times in user_login_times.items()`: [raised, alerts]
RECURSIVE RapidUsersLoop(_, _, _, _, _)
RapidUsersLoop(entries, users, k, out, window_seconds) ==
    IF k > Len(users) THEN [raised |-> FALSE, alerts |-> out]
    ELSE LET times == TimesOf(entries, users[k], 1) IN
         IF SortRaises(times) THEN [raised |-> TRUE, alerts |-> out]
         ELSE RapidUsersLoop(entries, users, k + 1,
                  out \o ScanPairs(users[k], SortTimes(times, 1, <<>>), 1,
                                   window_seconds),
                  window_seconds)

\* Mutant: the rule appending to the module's _user_login_times (detect.py
\* l.12) in place of its local dictionary, so that the previous call's login
\* times are still there.
rule_rapid_keeping_times(batch, window_seconds) ==
    LET entries == ParsedLogins(logs \o batch, 1) IN
    RapidUsersLoop(entries, LoginUsers(entries, 1), 1, <<>>, window_seconds)

rule_rapid_multiple_logins(batch, window_seconds) ==
    LET entries == ParsedLogins(batch, 1) IN
    RapidUsersLoop(entries, LoginUsers(entries, 1), 1, <<>>, window_seconds)

----------------------------------------------------------------------------
(* 4.5  detect_all                                                          *)

\* `severity_order.get(x.get("severity", "low"), 3)`
SeverityRank(a) ==
    CASE a.severity = "high" -> 0
      [] a.severity = "medium" -> 1
      [] a.severity = "low" -> 2
      [] OTHER -> 3

\* Mutant: a sort that puts an element before its equals (not stable).
InsertBeforeEquals(sorted, a) ==
    LET p == Cardinality({k \in 1..Len(sorted) :
                              SeverityRank(sorted[k]) < SeverityRank(a)})
    IN SubSeq(sorted, 1, p) \o <<a>> \o SubSeq(sorted, p + 1, Len(sorted))

\* Mutant: a sort that keeps one alert per triggering record.
InsertOncePerRecord(sorted, a) ==
    IF \E k \in 1..Len(sorted) : /\ a.reason # "rapid_logins"
                                  /\ sorted[k].reason # "rapid_logins"
                                  /\ sorted[k].record = a.record
    THEN sorted
    ELSE LET p == Cardinality({k \in 1..Len(sorted) :
                                   SeverityRank(sorted[k]) <= SeverityRank(a)})
         IN SubSeq(sorted, 1, p) \o <<a>> \o SubSeq(sorted, p + 1, Len(sorted))

\* results.sort(key=...): list.sort is stable, so an element goes after every
\* element whose key is not greater.
InsertBySeverity(sorted, a) ==
    LET p == Cardinality({k \in 1..Len(sorted) :
                              SeverityRank(sorted[k]) <= SeverityRank(a)})
    IN SubSeq(sorted, 1, p) \o <<a>> \o SubSeq(sorted, p + 1, Len(sorted))

RECURSIVE SortBySeverity(_, _, _)
SortBySeverity(seq, i, sorted) ==
    IF i > Len(seq) THEN sorted
    ELSE SortBySeverity(seq, i + 1, InsertBySeverity(sorted, seq[i]))

\* One sequential detect_all(batch) from detection state (seen, failed): the
\* state it leaves, its local list before the sort, and what it returns.  A
\* TypeError out of the fourth rule leaves detect_all before the sort; the
\* first two rules have already changed the state.
detect_all(batch, seen, failed) ==
    LET r1 == rule_login_from_new_origin(batch, seen)
        r2 == rule_failed_login_threshold(batch, failed, DefaultThreshold)
        r3 == rule_login_unusual_time(batch, OutsideHoursStart, OutsideHoursEnd)
        r4 == rule_rapid_multiple_logins(batch, DefaultWindowSeconds)
        upto3 == r1.alerts \o r2.alerts \o r3
    IN IF r4.raised
       THEN [raised |-> TRUE, seen |-> r1.seen, failed |-> r2.failed,
             results |-> upto3, alerts |-> <<>>]
       ELSE [raised |-> FALSE, seen |-> r1.seen, failed |-> r2.failed,
             results |-> upto3 \o r4.alerts,
             alerts |-> SortBySeverity(upto3 \o r4.alerts, 1, <<>>)]

----------------------------------------------------------------------------
(* Observer of the calls made so far: counted from the batches handed to    *)
(* detect_all and from the alert lists it returned, never from its state.   *)

Indices(seq, Test(_)) == {i \in 1..Len(seq) : Test(seq[i])}

Max(S) == CHOOSE x \in S : \A y \in S : y <= x
Min(S) == CHOOSE x \in S : \A y \in S : x <= y

IsFailedLoginOf(u, r) == r.type = "failed_login" /\ r.user = u
IsLoginOf(u, o, r) == r.type = "login" /\ r.user = u /\ r.origin = o
IsThresholdAlertOf(u, a) == a.reason = "failed_login_threshold" /\ a.user = u
IsNewOriginAlertOf(u, o, a) ==
    a.reason = "new_origin" /\ a.user = u /\ a.origin = o

NoTally ==
    [calls            |-> 0,
     failed_submitted |-> [u \in Users |-> 0],
     threshold_alerts |-> [u \in Users |-> 0],
     last_failed_count |-> [u \in Users |-> 0],
     origin_logins    |-> [u \in Users |-> [o \in Origins |-> 0]],
     origin_alerts    |-> [u \in Users |-> [o \in Origins |-> 0]]]

Observe(t, batch, returned) ==
    [calls |-> t.calls + 1,
     failed_submitted |-> [u \in Users |-> t.failed_submitted[u]
         + Cardinality(Indices(batch, LAMBDA r : IsFailedLoginOf(u, r)))],
     threshold_alerts |-> [u \in Users |-> t.threshold_alerts[u]
         + Cardinality(Indices(returned, LAMBDA a : IsThresholdAlertOf(u, a)))],
     last_failed_count |-> [u \in Users |->
         LET idx == Indices(returned, LAMBDA a : IsThresholdAlertOf(u, a))
         IN IF idx = {} THEN t.last_failed_count[u]
            ELSE returned[Max(idx)].failed_count],
     origin_logins |-> [u \in Users |-> [o \in Origins |-> t.origin_logins[u][o]
         + Cardinality(Indices(batch, LAMBDA r : IsLoginOf(u, o, r)))]],
     origin_alerts |-> [u \in Users |-> [o \in Origins |-> t.origin_alerts[u][o]
         + Cardinality(Indices(returned, LAMBDA a : IsNewOriginAlertOf(u, o, a)))]]]

----------------------------------------------------------------------------
(* Sequential calls                                                         *)

RECURSIVE SeqsUpTo(_, _)
SeqsUpTo(S, n) ==
    IF n = 0 THEN {<<>>}
    ELSE LET shorter == SeqsUpTo(S, n - 1)
         IN shorter \cup {Append(q, x) : q \in {p \in shorter : Len(p) = n - 1}, x \in S}

\* Records of Spec: both kinds of record for both users, a repeated
\* user/origin pair, and login timestamps with and without a zone.
SeqRecords ==
    { Rec("failed_login", "alice", NoValue, NoStamp),
      Rec("failed_login", "bob", NoValue, NoStamp),
      Rec("login", "alice", "US", NaiveNoon),
      Rec("login", "alice", "US", ZuluT),
      Rec("login", "bob", "UK", ZuluT) }

SeqBatches == SeqsUpTo(SeqRecords, MaxBatch)

\* Records of SpecBatch: every timestamp shape on one user's logins, a second
\* user, records without user or origin, and a type no rule knows.
BatchRecords ==
    { Rec("login", "alice", "US", ts) : ts \in Stamps }
    \cup { Rec("login", "bob", "UK", ZuluT), Rec("login", "bob", "UK", ZuluT10),
           Rec("login", "alice", NoValue, ZuluT),
           Rec("login", NoValue, "US", ZuluT),
           Rec("failed_login", "alice", NoValue, NoStamp),
           Rec("failed_login", "bob", NoValue, NoStamp),
           Rec("failed_login", NoValue, NoValue, NoStamp),
           Rec("logout", "alice", "US", ZuluT) }

Batches == SeqsUpTo(BatchRecords, MaxBatch)

FreshOrigins == [u \in Users |-> {}]
FreshFailed == [u \in Users |-> 0]

\* Detection states earlier calls leave behind.
PriorOrigins == {FreshOrigins, [FreshOrigins EXCEPT !["alice"] = {"US"}]}
PriorFailed == {FreshFailed, [FreshFailed EXCEPT !["alice"] = DefaultThreshold - 1]}

NoThreads == <<>>

\* The store and the response layer as the process starts them, for the
\* specifications that call detect_all directly.
NoStore == [db |-> FALSE, rows |-> <<>>]
NoResponse == [alerts_generated |-> 0, incidents_created |-> 0, incidents |-> <<>>]

NoLayer ==
    /\ store = NoStore
    /\ incidents = <<>>
    /\ incident_counter = 0
    /\ response = NoResponse

\* What the observer has counted when earlier calls, none of which raised,
\* left the detection state (seen, failed).
PriorTally(seen, failed) ==
    [calls            |-> 0,
     failed_submitted |-> failed,
     threshold_alerts |-> [u \in Users |->
         IF failed[u] >= DefaultThreshold THEN failed[u] - DefaultThreshold + 1 ELSE 0],
     last_failed_count |-> [u \in Users |->
         IF failed[u] >= DefaultThreshold THEN failed[u] ELSE 0],
     origin_logins    |-> [u \in Users |-> [o \in Origins |->
         IF o \in seen[u] THEN 1 ELSE 0]],
     origin_alerts    |-> [u \in Users |-> [o \in Origins |->
         IF o \in seen[u] THEN 1 ELSE 0]]]

\* One whole call of detect_all(batch), as api_detect makes it.
DetectAllCall(batch) ==
    \E d \in {detect_all(batch, seen_origins, failed_logins)} :
    /\ seen_origins' = d.seen
    /\ failed_logins' = d.failed
    /\ logs' = batch
    /\ results' = d.results
    /\ alerts' = d.alerts
    /\ outcome' = IF d.raised THEN "raised" ELSE "returned"
    /\ tally' = Observe(tally, batch, d.alerts)
    /\ UNCHANGED <<thread, layer_vars>>

Init ==
    /\ seen_origins = FreshOrigins
    /\ failed_logins = FreshFailed
    /\ logs = <<>>
    /\ results = <<>>
    /\ alerts = <<>>
    /\ outcome = "idle"
    /\ tally = NoTally
    /\ thread = NoThreads
    /\ NoLayer

Next == \E batch \in SeqBatches : tally.calls < MaxCalls /\ DetectAllCall(batch)

Spec == Init /\ [][Next]_vars

InitBatch ==
    /\ seen_origins \in PriorOrigins
    /\ failed_logins \in PriorFailed
    /\ logs \in Batches
    /\ results = <<>>
    /\ alerts = <<>>
    /\ outcome = "pending"
    /\ tally = PriorTally(seen_origins, failed_logins)
    /\ thread = NoThreads
    /\ NoLayer

NextBatch == outcome = "pending" /\ DetectAllCall(logs)

SpecBatch == InitBatch /\ [][NextBatch]_vars

----------------------------------------------------------------------------
(* Claims about one call (SpecBatch)                                        *)

HasSeverity(s, a) == a.severity = s
OfSeverity(seq, s) == SelectSeq(seq, LAMBDA a : HasSeverity(s, a))

\* s1 is a more urgent severity than s2.
MoreUrgent(s1, s2) ==
    \/ s1 = "high" /\ s2 \in {"medium", "low"}
    \/ s1 = "medium" /\ s2 = "low"

\* C3: the list detect_all returns has every high alert before every medium
\* alert before every low alert, and within one severity the alerts stand in
\* the order of the concatenation of the four rules' outputs.
C3_SeverityOrderStable ==
    outcome = "returned" =>
        /\ Len(alerts) = Len(results)
        /\ \A i, j \in 1..Len(alerts) :
               i < j => ~MoreUrgent(alerts[j].severity, alerts[i].severity)
        /\ \A s \in {"high", "medium", "low"} :
               OfSeverity(alerts, s) = OfSeverity(results, s)

\* A call whose sort moved alerts, with all three severities and two medium
\* alerts of different rules.
C3_Witness ==
    /\ outcome = "returned"
    /\ alerts # results
    /\ \E i, j \in 1..Len(alerts) :
           /\ i < j
           /\ alerts[i].reason = "new_origin"
           /\ alerts[j].reason = "rapid_logins"
    /\ \E i \in 1..Len(alerts) : alerts[i].severity = "high"
    /\ \E i \in 1..Len(alerts) : alerts[i].severity = "low"

\* C6 (as claimed): detect_all returns an alert list for every batch, never
\* raising, whatever mix of absent, unparsable, zone-less and zone-suffixed
\* timestamps the batch holds.
C6_NeverRaises == outcome # "raised"

RapidAlertsOf(seq, u) ==
    Indices(seq, LAMBDA a : a.reason = "rapid_logins" /\ a.user = u)

LoginsAt(batch, u, ts) ==
    Indices(batch, LAMBDA r : r.type = "login" /\ r.user = u /\ r.timestamp = ts)

\* C7: one call emits at most one rapid_logins alert per user, however many
\* adjacent pairs of that user's timestamps lie inside the window; the batch
\* T, T+10s, T+200s of one user gives exactly one.
C7_OneRapidAlertPerUser ==
    outcome \in {"returned", "raised"} =>
        \A u \in Users :
            /\ Cardinality(RapidAlertsOf(results, u)) <= 1
            /\ ( /\ outcome = "returned"
                 /\ LoginsAt(logs, u, ZuluT) # {}
                 /\ LoginsAt(logs, u, ZuluT10) # {}
                 /\ LoginsAt(logs, u, ZuluT200) # {} )
               => Cardinality(RapidAlertsOf(alerts, u)) = 1

\* alice logs in at T, T+10s and T+60s: two adjacent pairs inside the window
\* (10 s and 50 s), one alert.
C7_Witness ==
    /\ outcome = "returned"
    /\ Len(logs) = 3
    /\ LoginsAt(logs, "alice", ZuluT) # {}
    /\ LoginsAt(logs, "alice", ZuluT10) # {}
    /\ LoginsAt(logs, "alice", ZuluT60) # {}
    /\ Cardinality(RapidAlertsOf(alerts, "alice")) = 1

\* The hour field written in a timestamp string (its wall-clock hour).
WrittenHour(ts) == (ts.local \div 3600) % 24

\* The hour of the same instant in UTC; a string without a zone is read as
\* UTC, as the ingestion layer writes it.
UtcHour(ts) ==
    ((ts.local - (IF ts.kind = "offset" THEN ts.off ELSE 0) * 3600) \div 3600) % 24

InNightWindow(h) == h >= 22 \/ h < 6

IsUnusualAlertFor(r, a) == a.reason = "unusual_login_time" /\ a.record = r

IsCandidate(r) ==
    /\ r.type = "login"
    /\ r.user \in Users
    /\ r.timestamp.kind \in {"naive", "zulu", "offset"}

UnusualAlerts(seq) == Indices(seq, LAMBDA a : a.reason = "unusual_login_time")

\* C8: with the default window (22, 6) a login record with a user and a
\* parsable timestamp is alerted as unusual_login_time exactly when the hour
\* h of its timestamp has h >= 22 or h < 6, one alert per such record, and
\* the alert's hour field is h.  h is the hour the timestamp string shows.
C8_NightWindow ==
    outcome \in {"returned", "raised"} =>
        /\ \A i \in 1..Len(logs) : IsCandidate(logs[i]) =>
               ( (\E k \in UnusualAlerts(results) : results[k].record = logs[i])
                 <=> InNightWindow(WrittenHour(logs[i].timestamp)) )
        /\ \A k \in UnusualAlerts(results) :
               /\ IsCandidate(results[k].record)
               /\ results[k].hour = WrittenHour(results[k].record.timestamp)
        /\ Cardinality(UnusualAlerts(results))
               = Cardinality({i \in 1..Len(logs) :
                     IsCandidate(logs[i])
                     /\ InNightWindow(WrittenHour(logs[i].timestamp))})

\* Logins at hours 23, 3 and 12 in one batch: two alerts, none for hour 12.
C8_Witness ==
    /\ outcome = "returned"
    /\ \E k \in UnusualAlerts(alerts) : alerts[k].hour = 23
    /\ \E k \in UnusualAlerts(alerts) : alerts[k].hour = 3
    /\ \E i \in 1..Len(logs) :
           IsCandidate(logs[i]) /\ WrittenHour(logs[i].timestamp) = 12
    /\ Cardinality(UnusualAlerts(alerts)) = 2

\* C9 (as claimed): the hour tested against the window and reported in the
\* alert is the UTC hour of the timestamp, also when the string carries a
\* zone offset other than zero.
C9_HourIsUtc ==
    outcome \in {"returned", "raised"} =>
        /\ \A i \in 1..Len(logs) : IsCandidate(logs[i]) =>
               ( (\E k \in UnusualAlerts(results) : results[k].record = logs[i])
                 <=> InNightWindow(UtcHour(logs[i].timestamp)) )
        /\ \A k \in UnusualAlerts(results) :
               results[k].hour = UtcHour(results[k].record.timestamp)

----------------------------------------------------------------------------
(* Claims about sequences of calls (Spec)                                   *)

AtLeastZero(n) == IF n < 0 THEN 0 ELSE n

\* C1 (as claimed): from the fresh state, however a user's N failed_login
\* records are spread over sequential detect_all calls, the calls return
\* exactly max(0, N - 5 + 1) failed_login_threshold alerts for that user.
C1_ThresholdAlertCount ==
    \A u \in Users :
        tally.threshold_alerts[u] = AtLeastZero(tally.failed_submitted[u] - 5 + 1)

FirstLoginOf(batch, u, o) ==
    batch[Min(Indices(batch, LAMBDA r : IsLoginOf(u, o, r)))]

\* C2 (as claimed): from the fresh state, the first login record of a
\* user/origin pair is answered with a new_origin alert and no later login
\* record of that pair ever is: once the pair has been submitted, exactly one
\* new_origin alert has been returned for it, and an alert returned by a call
\* carries the first record of the pair in that call's batch.
C2_FirstOriginAlertsOnce ==
    \A u \in Users : \A o \in Origins :
        /\ tally.origin_alerts[u][o]
               = (IF tally.origin_logins[u][o] > 0 THEN 1 ELSE 0)
        /\ \A k \in Indices(alerts, LAMBDA a : IsNewOriginAlertOf(u, o, a)) :
               alerts[k].record = FirstLoginOf(logs, u, o)

ThresholdAlertsOf(seq, u) == Indices(seq, LAMBDA a : IsThresholdAlertOf(u, a))

\* C10 (as claimed): a failed_login_threshold alert carries the user's
\* counter as it stands right after the triggering record was counted: the
\* fifth failed_login of a user is answered with failed_count 5 and every
\* further one, in whatever call, with a failed_count one greater than the
\* alert before it, so the latest alert always carries the number of
\* failed_login records submitted so far.
C10_FailedCountFollowsCounter ==
    \A u \in Users :
        /\ \A k \in ThresholdAlertsOf(alerts, u) :
               /\ alerts[k].severity = "high"
               /\ alerts[k].failed_count >= 5
               /\ alerts[k].failed_count
                      = failed_logins[u]
                          - Cardinality({m \in ThresholdAlertsOf(alerts, u) : m > k})
        /\ tally.failed_submitted[u] >= 5
               => tally.last_failed_count[u] = tally.failed_submitted[u]

----------------------------------------------------------------------------
(* Concurrent calls (SpecConc).  api_detect and api_detect_and_respond are   *)
(* plain `def` endpoints, which the server runs on worker threads, and       *)
(* detect.py takes no lock: two calls of detect_all can be switched between  *)
(* any two accesses to _seen_origins / _failed_logins.  A thread's step is   *)
(* one such access together with the local work that follows it.            *)

Threads == {1, 2}

ConcRecords ==
    { Rec("failed_login", "alice", NoValue, NoStamp),
      Rec("failed_login", "bob", NoValue, NoStamp),
      Rec("login", "alice", "US", ZuluT),
      Rec("login", "bob", "UK", ZuluT) }

ConcBatches == SeqsUpTo(ConcRecords, MaxConcBatch)

\* Position the frame on the next record the failed-login loop acts on, or
\* past the loop on the two rules that touch no shared state.
EnterFailedLoop(f, i) ==
    LET todo == {j \in i..Len(f.logs) : FailedLoginApplies(f.logs[j])} IN
    IF todo = {} THEN [f EXCEPT !.pc = "rest", !.i = 0]
    ELSE [f EXCEPT !.pc = "count_load", !.i = Min(todo)]

\* Position the frame on the next record the new-origin loop acts on, or on
\* the failed-login loop when none is left.
EnterOriginLoop(f, i) ==
    LET todo == {j \in i..Len(f.logs) : NewOriginApplies(f.logs[j])} IN
    IF todo = {} THEN EnterFailedLoop(f, 1)
    ELSE [f EXCEPT !.pc = "origin_check", !.i = Min(todo)]

\* The frame of a thread that has just entered detect_all(batch).
Frame(batch) ==
    EnterOriginLoop([pc |-> "start", logs |-> batch, i |-> 0, reg |-> 0,
                     out1 |-> <<>>, out2 |-> <<>>, alerts |-> <<>>], 1)

\* detect.py:28  `if origin not in _seen_origins[user]:`
CheckOrigin(t) ==
    LET f == thread[t]  r == f.logs[f.i] IN
    /\ f.pc = "origin_check"
    /\ thread' = [thread EXCEPT ![t] =
           IF OriginIsNew(seen_origins, r.user, r.origin)
           THEN [f EXCEPT !.pc = "origin_add",
                          !.out1 = Append(@, NewOriginAlert(r))]
           ELSE EnterOriginLoop(f, f.i + 1)]
    /\ UNCHANGED <<seen_origins, failed_logins, logs, results, alerts, outcome, tally, layer_vars>>

\* detect.py:36  `_seen_origins[user].add(origin)`
MarkOrigin(t) ==
    LET f == thread[t]  r == f.logs[f.i] IN
    /\ f.pc = "origin_add"
    /\ seen_origins' = AddOrigin(seen_origins, r.user, r.origin)
    /\ thread' = [thread EXCEPT ![t] = EnterOriginLoop(f, f.i + 1)]
    /\ UNCHANGED <<failed_logins, logs, results, alerts, outcome, tally, layer_vars>>

\* detect.py:52  `_failed_logins[user] += 1`, the read of the old value
LoadCount(t) ==
    LET f == thread[t]  r == f.logs[f.i] IN
    /\ f.pc = "count_load"
    /\ thread' = [thread EXCEPT ![t] =
           [f EXCEPT !.pc = "count_store", !.reg = failed_logins[r.user]]]
    /\ UNCHANGED <<seen_origins, failed_logins, logs, results, alerts, outcome, tally, layer_vars>>

\* detect.py:52  `_failed_logins[user] += 1`, the write of old value + 1
StoreCount(t) ==
    LET f == thread[t]  r == f.logs[f.i] IN
    /\ f.pc = "count_store"
    /\ failed_logins' = [failed_logins EXCEPT ![r.user] = f.reg + 1]
    /\ thread' = [thread EXCEPT ![t] = [f EXCEPT !.pc = "count_test"]]
    /\ UNCHANGED <<seen_origins, logs, results, alerts, outcome, tally, layer_vars>>

\* detect.py:53  `if _failed_logins[user] >= threshold:`
TestCount(t) ==
    LET f == thread[t]  r == f.logs[f.i] IN
    /\ f.pc = "count_test"
    /\ thread' = [thread EXCEPT ![t] =
           IF ThresholdReached(failed_logins[r.user], DefaultThreshold)
           THEN [f EXCEPT !.pc = "count_read"]
           ELSE EnterFailedLoop(f, f.i + 1)]
    /\ UNCHANGED <<seen_origins, failed_logins, logs, results, alerts, outcome, tally, layer_vars>>

\* detect.py:54-60  the alert, with `"failed_count": _failed_logins[user]`
ReadCount(t) ==
    LET f == thread[t]  r == f.logs[f.i] IN
    /\ f.pc = "count_read"
    /\ thread' = [thread EXCEPT ![t] =
           EnterFailedLoop(
               [f EXCEPT !.out2 = Append(@, FailedLoginAlert(r, failed_logins[r.user]))],
               f.i + 1)]
    /\ UNCHANGED <<seen_origins, failed_logins, logs, results, alerts, outcome, tally, layer_vars>>

\* detect.py:140-147  the two rules without shared state, the sort, the return
Finish(t) ==
    LET f == thread[t] IN
    /\ f.pc = "rest"
    /\ \E r4 \in {rule_rapid_multiple_logins(f.logs, DefaultWindowSeconds)} :
         thread' = [thread EXCEPT ![t] =
           IF r4.raised THEN [f EXCEPT !.pc = "raised"]
           ELSE [f EXCEPT !.pc = "returned",
                    !.alerts = SortBySeverity(
                        f.out1 \o f.out2
                          \o rule_login_unusual_time(f.logs, OutsideHoursStart,
                                                     OutsideHoursEnd)
                          \o r4.alerts, 1, <<>>)]]
    /\ UNCHANGED <<seen_origins, failed_logins, logs, results, alerts, outcome, tally, layer_vars>>

InitConc ==
    /\ seen_origins = FreshOrigins
    /\ failed_logins \in PriorFailed
    /\ logs = <<>>
    /\ results = <<>>
    /\ alerts = <<>>
    /\ outcome = "idle"
    /\ tally = PriorTally(seen_origins, failed_logins)
    /\ thread \in [Threads -> {Frame(b) : b \in ConcBatches}]
    /\ NoLayer

NextConc ==
    \E t \in Threads :
        \/ CheckOrigin(t)
        \/ MarkOrigin(t)
        \/ LoadCount(t)
        \/ StoreCount(t)
        \/ TestCount(t)
        \/ ReadCount(t)
        \/ Finish(t)

SpecConc == InitConc /\ [][NextConc]_vars

----------------------------------------------------------------------------
(* Claims about concurrent calls (SpecConc)                                 *)

Finished(t) == thread[t].pc \in {"returned", "raised"}

FailedLoginsIn(batch, u) ==
    Cardinality(Indices(batch, LAMBDA r : IsFailedLoginOf(u, r)))

\* C4 (as claimed): when two concurrent detect_all calls both count
\* failed_login records of one user, no increment is lost: once both calls
\* are over, the user's counter has grown by the number of failed_login
\* records the two calls processed.  (tally.failed_submitted holds the
\* counter values before the calls.)
C4_NoLostIncrement ==
    (\A t \in Threads : Finished(t)) =>
        \A u \in Users :
            failed_logins[u] = tally.failed_submitted[u]
                + FailedLoginsIn(thread[1].logs, u)
                + FailedLoginsIn(thread[2].logs, u)

\* What the two calls return and leave behind when the call of thread a runs
\* whole before the call of thread b.
Serial(a, b) ==
    LET da == detect_all(thread[a].logs, FreshOrigins, tally.failed_submitted)
        db == detect_all(thread[b].logs, da.seen, da.failed)
    IN /\ thread[a].alerts = da.alerts
       /\ thread[b].alerts = db.alerts
       /\ seen_origins = db.seen
       /\ failed_logins = db.failed

\* C5 (as claimed): two concurrent detect_all calls are atomic with respect
\* to the detection state: the alerts each returns and the state they leave
\* are those of one of the two serial orders; in particular no user/origin
\* pair is answered with a new_origin alert by both calls.
C5_CallsAreSerializable ==
    (\A t \in Threads : Finished(t)) =>
        /\ Serial(1, 2) \/ Serial(2, 1)
        /\ \A u \in Users : \A o \in Origins :
               ~ /\ Indices(thread[1].alerts, LAMBDA a : IsNewOriginAlertOf(u, o, a)) # {}
                 /\ Indices(thread[2].alerts, LAMBDA a : IsNewOriginAlertOf(u, o, a)) # {}

----------------------------------------------------------------------------
(* SpecSplit: sequential calls whose batches hold logins close in time      *)

\* alice logs in from the US at T and from the UK ten seconds later; bob logs
\* in at T+10s as well.
SplitRecords ==
    { Rec("login", "alice", "US", ZuluT),
      Rec("login", "alice", "UK", ZuluT10),
      Rec("login", "bob", "US", ZuluT10) }

SplitBatches == SeqsUpTo(SplitRecords, MaxSplitBatch)

NextSplit == \E batch \in SplitBatches : tally.calls < MaxCalls /\ DetectAllCall(batch)

SpecSplit == Init /\ [][NextSplit]_vars

\* Two login records of user u in the batch whose timestamps parse and lie
\* more than 0 and less than the window apart.
ClosePairIn(batch, u) ==
    \E i, j \in 1..Len(batch) :
        /\ batch[i].type = "login" /\ batch[i].user = u
        /\ batch[j].type = "login" /\ batch[j].user = u
        /\ Parsable(batch[i].timestamp) /\ Parsable(batch[j].timestamp)
        /\ 0 < batch[j].timestamp.local - batch[i].timestamp.local
        /\ batch[j].timestamp.local - batch[i].timestamp.local < DefaultWindowSeconds

\* C11: the rapid-logins rule keeps nothing between calls: whether a call
\* returns a rapid_logins alert for a user depends on that call's batch
\* alone (here, on whether the batch itself holds two logins of the user less
\* than the window apart), so two such logins handed over in two separate
\* calls never produce the alert.
C11_RapidLoginsPerCall ==
    outcome = "returned" =>
        \A u \in Users : (RapidAlertsOf(alerts, u) # {}) <=> ClosePairIn(logs, u)

\* The second call holds alice's login at T+10s alone, the first call held
\* her login at T (her only US login so far) and no alert came back.
C11_Witness ==
    /\ tally.calls = 2
    /\ logs = <<Rec("login", "alice", "UK", ZuluT10)>>
    /\ tally.origin_logins["alice"]["US"] = 1
    /\ outcome = "returned"
    /\ RapidAlertsOf(alerts, "alice") = {}

----------------------------------------------------------------------------
(* Claims about the records a rule passes over (SpecBatch)                  *)

Count(seq, Test(_)) == Cardinality(Indices(seq, Test))

\* The detection state the call of SpecBatch started from, recovered from
\* what the observer had counted before the call.
SeenBefore(u) ==
    {o \in Origins :
        tally.origin_logins[u][o] > Count(logs, LAMBDA r : IsLoginOf(u, o, r))}
FailedBefore(u) ==
    tally.failed_submitted[u] - Count(logs, LAMBDA r : IsFailedLoginOf(u, r))

NewOriginAlerts(seq) == Indices(seq, LAMBDA a : a.reason = "new_origin")

\* A login record with a user and an origin whose timestamp is missing or
\* does not parse.
IsUntimedLogin(r) ==
    /\ r.type = "login"
    /\ r.user \in Users
    /\ r.origin \in Origins
    /\ ~Parsable(r.timestamp)

\* C12: a record without a user gives no alert from any rule and leaves
\* seen_origins and failed_logins as they were; a login record with user and
\* origin whose timestamp does not parse gives no unusual_login_time alert
\* and is not counted by the rapid-logins rule, but the new-origin rule
\* still handles it, alerting and marking the origin seen when it is new.
C12_SkippedRecords ==
    outcome \in {"returned", "raised"} =>
        /\ \A k \in 1..Len(results) :
               /\ results[k].user \in Users
               /\ results[k].reason # "rapid_logins" => results[k].record.user \in Users
        /\ \A u \in Users :
               /\ seen_origins[u] = SeenBefore(u)
                      \cup {o \in Origins : Count(logs, LAMBDA r : IsLoginOf(u, o, r)) > 0}
               /\ failed_logins[u] = FailedBefore(u)
                      + Count(logs, LAMBDA r : IsFailedLoginOf(u, r))
        /\ (\A i \in 1..Len(logs) : logs[i].user = NoValue) =>
               /\ results = <<>>
               /\ \A u \in Users : /\ seen_origins[u] = SeenBefore(u)
                                   /\ failed_logins[u] = FailedBefore(u)
        /\ \A i \in 1..Len(logs) : IsUntimedLogin(logs[i]) =>
               /\ ~ \E k \in UnusualAlerts(results) : results[k].record = logs[i]
               /\ \A k \in RapidAlertsOf(results, logs[i].user) :
                      results[k].logins_in_window
                          = Count(logs, LAMBDA r : /\ r.type = "login"
                                                   /\ r.user = logs[i].user
                                                   /\ Parsable(r.timestamp))
               /\ logs[i].origin \in seen_origins[logs[i].user]
               /\ ( /\ logs[i].origin \notin SeenBefore(logs[i].user)
                    /\ \A j \in 1..(i - 1) :
                           ~IsLoginOf(logs[i].user, logs[i].origin, logs[j]) )
                  => \E k \in NewOriginAlerts(results) : results[k].record = logs[i]

\* A night login without a user, then alice's first US login with a
\* timestamp that does not parse: the only alert is the new_origin alert of
\* the second record, and only alice's origins have changed.
C12_Witness ==
    /\ outcome = "returned"
    /\ logs = <<Rec("login", NoValue, "US", ZuluT), Rec("login", "alice", "US", BadStamp)>>
    /\ SeenBefore("alice") = {}
    /\ Len(alerts) = 1
    /\ alerts[1].reason = "new_origin" /\ alerts[1].record = logs[2]
    /\ seen_origins["alice"] = {"US"}

\* The records of a batch whose type some rule knows, in batch order.
KnownTypes(batch) == SelectSeq(batch, LAMBDA r : r.type \in {"login", "failed_login"})

\* C13: a record whose type is neither "login" nor "failed_login" is passed
\* over by all four rules: a batch of such records alone returns no alerts
\* and leaves the detection state as it was, and a batch with such records
\* in it returns the alerts and leaves the state that the same batch
\* without them does.
C13_UnknownTypesIgnored ==
    outcome \in {"returned", "raised"} =>
        /\ KnownTypes(logs) = <<>> =>
               /\ outcome = "returned"
               /\ alerts = <<>>
               /\ \A u \in Users : /\ seen_origins[u] = SeenBefore(u)
                                   /\ failed_logins[u] = FailedBefore(u)
        /\ KnownTypes(logs) # logs =>
               LET without == detect_all(KnownTypes(logs),
                                         [u \in Users |-> SeenBefore(u)],
                                         [u \in Users |-> FailedBefore(u)])
               IN /\ alerts = without.alerts
                  /\ seen_origins = without.seen
                  /\ failed_logins = without.failed
                  /\ (outcome = "raised") <=> without.raised

\* alice's logout from the US precedes her first US login, at night: the
\* login alone is answered (new_origin, unusual_login_time).
C13_Witness ==
    /\ outcome = "returned"
    /\ logs = <<Rec("logout", "alice", "US", ZuluT), Rec("login", "alice", "US", ZuluT)>>
    /\ SeenBefore("alice") = {}
    /\ Len(alerts) = 2
    /\ \A k \in 1..2 : alerts[k].record = logs[2]

\* A login record with user, origin and a timestamp in the night window that
\* is the first login of its user/origin pair in the batch, the pair not
\* seen before the call.
NewAndAtNight(i) ==
    /\ IsCandidate(logs[i])
    /\ logs[i].origin \in Origins
    /\ InNightWindow(WrittenHour(logs[i].timestamp))
    /\ logs[i].origin \notin SeenBefore(logs[i].user)
    /\ \A j \in 1..(i - 1) : ~IsLoginOf(logs[i].user, logs[i].origin, logs[j])

\* C14: detect_all removes no duplicates and merges no alerts: what it
\* returns is a permutation of the four rules' outputs put end to end; a
\* single login record that is both from a new origin and in the night
\* window is answered with a new_origin alert and an unusual_login_time
\* alert (by the two rules, when the fourth rule ends the call).
C14_NoDeduplication ==
    /\ outcome = "returned" =>
           /\ Len(alerts) = Len(results)
           /\ \A k \in 1..Len(results) :
                  Count(alerts, LAMBDA a : a = results[k])
                      = Count(results, LAMBDA a : a = results[k])
           /\ \A i \in 1..Len(logs) : NewAndAtNight(i) =>
                  /\ \E k \in NewOriginAlerts(alerts) : alerts[k].record = logs[i]
                  /\ \E k \in UnusualAlerts(alerts) : alerts[k].record = logs[i]
    /\ outcome = "raised" =>
           \A i \in 1..Len(logs) : NewAndAtNight(i) =>
               /\ \E k \in NewOriginAlerts(results) : results[k].record = logs[i]
               /\ \E k \in UnusualAlerts(results) : results[k].record = logs[i]

\* bob's first UK login, at 23:00, alone in the batch: two alerts.
C14_Witness ==
    /\ outcome = "returned"
    /\ logs = <<Rec("login", "bob", "UK", ZuluT)>>
    /\ NewAndAtNight(1)
    /\ Len(alerts) = 2
    /\ alerts[1].reason = "new_origin" /\ alerts[2].reason = "unusual_login_time"
    /\ alerts[1].record = alerts[2].record

\* The login records of user u in the batch whose timestamp parses.
TimedLoginsOf(batch, u) ==
    Indices(batch, LAMBDA r : r.type = "login" /\ r.user = u /\ Parsable(r.timestamp))

\* The instant a timestamp denotes, in seconds; a string without a zone is
\* read as UTC.
UtcInstant(ts) == ts.local - (IF ts.kind = "offset" THEN ts.off * 3600 ELSE 0)

\* Two of u's timestamps that are neighbours in ascending order and lie more
\* than 0 and less than the window apart.
AdjacentPairInWindow(batch, u) ==
    \E i, j \in TimedLoginsOf(batch, u) :
        /\ 0 < UtcInstant(batch[j].timestamp) - UtcInstant(batch[i].timestamp)
        /\ UtcInstant(batch[j].timestamp) - UtcInstant(batch[i].timestamp)
               < DefaultWindowSeconds
        /\ ~ \E k \in TimedLoginsOf(batch, u) :
               /\ UtcInstant(batch[i].timestamp) < UtcInstant(batch[k].timestamp)
               /\ UtcInstant(batch[k].timestamp) < UtcInstant(batch[j].timestamp)

\* C15 (as claimed): a call answers a user with a rapid_logins alert exactly
\* when two neighbours among the user's parsable login timestamps, sorted
\* ascending, are more than 0 and less than window_seconds apart (equal
\* timestamps and a gap of exactly the window do not count), and the alert's
\* logins_in_window is the number of the user's parsable login timestamps in
\* the batch.
C15_RapidLoginsFires ==
    outcome \in {"returned", "raised"} =>
        \A u \in Users :
            /\ (RapidAlertsOf(alerts, u) # {}) <=> AdjacentPairInWindow(logs, u)
            /\ \A k \in RapidAlertsOf(alerts, u) :
                   alerts[k].logins_in_window = Cardinality(TimedLoginsOf(logs, u))

----------------------------------------------------------------------------
(* respond.py: incidents and the response playbook                          *)

\* alert.get(key, default) on an alert dictionary.
Get(alert, key, default) == IF key \in DOMAIN alert THEN alert[key] ELSE default

\* Incident.__init__ after the counter has been advanced; created_at is left
\* out.
NewIncident(alert, id) ==
    [id           |-> id,
     alert_id     |-> Get(alert, "id", "unknown"),
     alert_reason |-> Get(alert, "reason", "unknown"),
     user         |-> Get(alert, "user", NoValue),
     ip           |-> Get(alert, "ip", NoValue),
     status       |-> "active",
     actions      |-> <<>>]

\* Incident.add_action, without the timestamp and the text of the details.
add_action(incident, action, target) ==
    [incident EXCEPT !.actions =
        Append(@, [action |-> action, target |-> target, status |-> "success"])]

block_ip(ip, incident) == add_action(incident, "block_ip", ip)
disable_account(user, incident) == add_action(incident, "disable_account", user)
send_alert(channel, incident) == add_action(incident, "alert", channel)

\* The response playbook of auto_respond_to_alert (l.117-135): the incident
\* with the actions taken for the alert.
Playbook(alert, incident) ==
    LET severity == Get(alert, "severity", "low")
        reason == Get(alert, "reason", "")
        user == Get(alert, "user", NoValue)
        ip == Get(alert, "ip", NoValue)
        disabled == IF reason = "failed_login_threshold" /\ Truthy(user)
                    THEN send_alert("ops", disable_account(user, incident))
                    ELSE incident
    IN IF severity = "high"
       THEN IF Truthy(ip) THEN send_alert("ops", block_ip(ip, disabled))
            ELSE disabled
       ELSE IF severity = "medium" THEN send_alert("security", incident)
            ELSE send_alert("logs", incident)

\* One sequential auto_respond_to_alert(alert) with the counter at `counter`:
\* the incident it appends to _incidents and the counter it leaves.
auto_respond_to_alert(alert, counter) ==
    [incident |-> Playbook(alert, NewIncident(alert, counter + 1)),
     counter  |-> counter + 1]

----------------------------------------------------------------------------
(* SpecRespond: two request threads inside auto_respond_to_alert            *)

\* Alerts handed to auto_respond_to_alert: every severity (None included),
\* two reasons, user and ip present or None.
RespondAlerts ==
    [severity : {"high", "medium", "low", NoValue},
     reason   : {"failed_login_threshold", "new_origin"},
     user     : {"bob", NoValue},
     ip       : {"10.0.0.1", NoValue}]

RespondFrame(alert) ==
    [pc |-> "load", alert |-> alert, reg |-> 0, incident |-> NoValue, pos |-> 0]

\* `_incident_counter += 1` reads the global ...
LoadCounter(t) ==
    /\ thread[t].pc = "load"
    /\ thread' = [thread EXCEPT ![t].pc = "store", ![t].reg = incident_counter]
    /\ UNCHANGED <<seen_origins, failed_logins, logs, results, alerts, outcome,
                   tally, store, incidents, incident_counter, response>>

\* ... and writes the sum back.
StoreCounter(t) ==
    /\ thread[t].pc = "store"
    /\ incident_counter' = thread[t].reg + 1
    /\ thread' = [thread EXCEPT ![t].pc = "id"]
    /\ UNCHANGED <<seen_origins, failed_logins, logs, results, alerts, outcome,
                   tally, store, incidents, response>>

\* `self.id = _incident_counter` reads the global again; the rest of
\* Incident.__init__ is local.
ReadId(t) ==
    /\ thread[t].pc = "id"
    /\ thread' = [thread EXCEPT ![t].pc = "append",
                                ![t].incident = NewIncident(thread[t].alert,
                                                            incident_counter)]
    /\ UNCHANGED <<seen_origins, failed_logins, logs, results, alerts, outcome,
                   tally, store, incidents, incident_counter, response>>

\* create_incident: `_incidents.append(incident)`
AppendIncident(t) ==
    /\ thread[t].pc = "append"
    /\ incidents' = Append(incidents, thread[t].incident)
    /\ thread' = [thread EXCEPT ![t].pc = "playbook", ![t].pos = Len(incidents) + 1]
    /\ UNCHANGED <<seen_origins, failed_logins, logs, results, alerts, outcome,
                   tally, store, incident_counter, response>>

\* The playbook adds its actions to the thread's own incident, which is
\* already in the list.
RunPlaybook(t) ==
    /\ thread[t].pc = "playbook"
    /\ incidents' = [incidents EXCEPT ![thread[t].pos] = Playbook(thread[t].alert, @)]
    /\ thread' = [thread EXCEPT ![t].pc = "done"]
    /\ UNCHANGED <<seen_origins, failed_logins, logs, results, alerts, outcome,
                   tally, store, incident_counter, response>>

InitRespond ==
    /\ seen_origins = FreshOrigins
    /\ failed_logins = FreshFailed
    /\ logs = <<>>
    /\ results = <<>>
    /\ alerts = <<>>
    /\ outcome = "idle"
    /\ tally = NoTally
    /\ thread \in [Threads -> {RespondFrame(a) : a \in RespondAlerts}]
    /\ NoLayer

NextRespond ==
    \E t \in Threads :
        \/ LoadCounter(t)
        \/ StoreCounter(t)
        \/ ReadId(t)
        \/ AppendIncident(t)
        \/ RunPlaybook(t)

SpecRespond == InitRespond /\ [][NextRespond]_vars

IsContainment(a) == a.action \in {"disable_account", "block_ip"}

\* C16 (as claimed): the response layer takes at most one containment action
\* (disable_account or block_ip) for an alert handed to
\* auto_respond_to_alert, whatever the alert's severity and reason and
\* whether or not it names a user and an ip.
C16_OneContainmentPerAlert ==
    \A i \in 1..Len(incidents) :
        Count(incidents[i].actions, IsContainment) <= 1

\* C20 (as claimed): the ids of the incidents are unique in every reachable
\* state, concurrent auto_respond_to_alert calls included, and the i-th
\* incident created has id i.
C20_IncidentIdsUnique ==
    /\ \A i, j \in 1..Len(incidents) :
           incidents[i].id = incidents[j].id => i = j
    /\ \A i \in 1..Len(incidents) : incidents[i].id = i

----------------------------------------------------------------------------
(* ingest.py, storage.py: the log store                                     *)

DefaultLimit == 100     \* get_logs(limit=100)

Reverse(seq) == [k \in 1..Len(seq) |-> seq[Len(seq) + 1 - k]]

\* seq[-n:]
LastN(seq, n) == SubSeq(seq, Max({1, Len(seq) - n + 1}), Len(seq))

\* The body of POST /ingest: LogRecord has no timestamp field (raw is left
\* out).
LogRecord(type, user, origin, ip) ==
    [type |-> type, user |-> user, origin |-> origin, ip |-> ip]

\* ingest_log: the record gets the time of ingestion, `utcnow().isoformat()
\* + "Z"`, and goes to the table when the database is initialised (the row
\* gets the next id), to the list _logs otherwise.
ingest_log(record, now, st) ==
    IF st.db
    THEN [st EXCEPT !.rows = Append(@,
             [id |-> Len(st.rows) + 1, timestamp |-> now, type |-> record.type,
              user |-> record.user, ip |-> record.ip, origin |-> record.origin])]
    ELSE [st EXCEPT !.rows = Append(@,
             [type |-> record.type, user |-> record.user, origin |-> record.origin,
              ip |-> record.ip, timestamp |-> now])]

\* get_logs: `order_by(Log.id.desc()).limit(limit)` from the table,
\* `_logs[-limit:]` from the list.
get_logs(st, limit) ==
    IF st.db THEN Reverse(LastN(st.rows, limit)) ELSE LastN(st.rows, limit)

----------------------------------------------------------------------------
(* app.py: POST /detect-and-respond                                         *)

\* Mutant: the loop answering high and medium alerts only.
RECURSIVE RespondLoopHighMedium(_, _, _, _, _)
RespondLoopHighMedium(found, k, incs, counter, made) ==
    IF k > Len(found) THEN [incidents |-> incs, counter |-> counter, made |-> made]
    ELSE IF found[k].severity \notin {"high", "medium"}
         THEN RespondLoopHighMedium(found, k + 1, incs, counter, made)
         ELSE LET r == auto_respond_to_alert(found[k], counter)
              IN RespondLoopHighMedium(found, k + 1, Append(incs, r.incident),
                                       r.counter, Append(made, r.incident))

\* `for alert in alerts: incident = auto_respond_to_alert(alert);
\* incidents.append(incident.to_dict())`: the module's list and counter
\* afterwards, and the request's own list.
RECURSIVE RespondLoop(_, _, _, _, _)
RespondLoop(found, k, incs, counter, made) ==
    IF k > Len(found) THEN [incidents |-> incs, counter |-> counter, made |-> made]
    ELSE LET r == auto_respond_to_alert(found[k], counter)
         IN RespondLoop(found, k + 1, Append(incs, r.incident), r.counter,
                        Append(made, r.incident))

----------------------------------------------------------------------------
(* SpecHttp: sequential requests                                            *)

HttpRecords ==
    { LogRecord("failed_login", "bob", NoValue, "10.0.0.1"),
      LogRecord("login", "alice", "US", "10.0.0.1") }

\* Times of ingestion.
NowStamps == {ZuluT, ZuluT10}

\* POST /ingest; the clock does not run backwards.
ApiIngest(record, now) ==
    /\ Len(store.rows) < MaxStore
    /\ \A k \in 1..Len(store.rows) : store.rows[k].timestamp.local <= now.local
    /\ store' = ingest_log(record, now, store)
    /\ UNCHANGED <<seen_origins, failed_logins, logs, results, alerts, outcome,
                   tally, thread, incidents, incident_counter, response>>

\* GET /detect
ApiDetect ==
    /\ tally.calls < MaxRequests
    /\ DetectAllCall(get_logs(store, DefaultLimit))

\* POST /detect-and-respond; an exception out of detect_all ends the request
\* before the loop.
ApiDetectAndRespond ==
    /\ tally.calls < MaxRequests
    /\ \E batch \in {get_logs(store, DefaultLimit)} :
       \E d \in {detect_all(batch, seen_origins, failed_logins)} :
       \E r \in {RespondLoop(d.alerts, 1, incidents, incident_counter, <<>>)} :
          /\ seen_origins' = d.seen
          /\ failed_logins' = d.failed
          /\ logs' = batch
          /\ results' = d.results
          /\ alerts' = d.alerts
          /\ tally' = Observe(tally, batch, d.alerts)
          /\ IF d.raised
             THEN /\ outcome' = "raised"
                  /\ UNCHANGED <<incidents, incident_counter, response>>
             ELSE /\ outcome' = "responded"
                  /\ incidents' = r.incidents
                  /\ incident_counter' = r.counter
                  /\ response' = [alerts_generated  |-> Len(d.alerts),
                                  incidents_created |-> Len(r.made),
                                  incidents         |-> r.made]
          /\ UNCHANGED <<thread, store>>

InitHttp ==
    /\ seen_origins = FreshOrigins
    /\ failed_logins = FreshFailed
    /\ logs = <<>>
    /\ results = <<>>
    /\ alerts = <<>>
    /\ outcome = "idle"
    /\ tally = NoTally
    /\ thread = NoThreads
    /\ store \in {[db |-> b, rows |-> <<>>] : b \in BOOLEAN}
    /\ incidents = <<>>
    /\ incident_counter = 0
    /\ response = NoResponse

NextHttp ==
    \/ \E record \in HttpRecords : \E now \in NowStamps : ApiIngest(record, now)
    \/ ApiDetect
    \/ ApiDetectAndRespond

SpecHttp == InitHttp /\ [][NextHttp]_vars

C18_StoredRecordCountedOnce ==
    (tally.calls >= 1 /\ Len(logs) = Len(store.rows)) =>
        \A u \in Users :
            /\ failed_logins[u] = Count(store.rows, LAMBDA r : IsFailedLoginOf(u, r))
            /\ tally.threshold_alerts[u]
                   = AtLeastZero(Count(store.rows, LAMBDA r : IsFailedLoginOf(u, r))
                                     - DefaultThreshold + 1)

----------------------------------------------------------------------------
(* Claims about sequences of calls (Spec), continued                        *)

RECURSIVE SumOver(_, _)
SumOver(f, S) ==
    IF S = {} THEN 0
    ELSE LET x == CHOOSE y \in S : TRUE IN f[x] + SumOver(f, S \ {x})

\* C19 (as claimed): in every state reached by sequential detect_all calls
\* from the fresh state, for every user the number of new_origin alerts
\* returned so far equals the number of origins in seen_origins[user], and
\* seen_origins[user] is exactly the set of origins of the login records
\* with that user and an origin handed over so far.
C19_OriginAlertsMatchSeen ==
    \A u \in Users :
        /\ SumOver(tally.origin_alerts[u], Origins) = Cardinality(seen_origins[u])
        /\ seen_origins[u] = {o \in Origins : tally.origin_logins[u][o] > 0}

----------------------------------------------------------------------------
(* Claims about the store (SpecHttp)                                        *)

\* What a stored record says, without the id the table adds.
Content(r) ==
    [type |-> r.type, user |-> r.user, origin |-> r.origin, ip |-> r.ip,
     timestamp |-> r.timestamp]

ContentOf(seq) == [k \in 1..Len(seq) |-> Content(seq[k])]

\* C21 (as claimed): the batch the HTTP surface hands to detect_all is in
\* ingestion order whichever store is active: it holds the most recent
\* `limit` ingested records oldest first, the same from the table as from
\* the in-memory list.
C21_BatchInIngestionOrder ==
    (tally.calls >= 1 /\ Len(logs) = Len(LastN(store.rows, DefaultLimit))) =>
        ContentOf(logs) = ContentOf(LastN(store.rows, DefaultLimit))

====
